---- MODULE Spec2Model ----
(***************************************************************************)
(* Model of vsclone.py: the capture operation Clone (download every        *)
(* installer, server and extension package and write manifest.json) and    *)
(* the apply operation Install (install the editor, the extensions and the *)
(* server from a manifest).                                                *)
(***************************************************************************)
EXTENDS Integers, Sequences, FiniteSets, TLC

VARIABLES
    \* ---- environment of the capture ----
    ed,            \* which release the local editor currently is (index into EditorReleases)
    updates,       \* how many times the editor updated itself during the capture
    installed,     \* what `code --list-extensions --show-versions` prints
    \* ---- Clone ----
    cpc,           \* position inside Clone
    ci,            \* index of the platform of the running for-loop
    cj,            \* index of the extension of the extension loop
    ext_list,      \* CurVSCodeExtensions() as read at line 145
    parsed,        \* (publisher, package, version) of the current ext_str
    got_all_platforms,
    manifest,      \* the dict built by Clone
    manifest_file, \* manifest.json of the capture directory
    files,         \* files of the capture directory written by Download: path -> url
    dl_log,        \* every Download call of the capture: url, path argument, result
    uuids,         \* number of uuid4() names handed out
    cret,          \* "running", "True", "False" or the exception that left Clone
    \* ---- environment of the apply ----
    system,        \* platform.system()
    input_file,    \* manifest.json of the directory given to Install
    local_extensions, \* ~/.vscode/extensions: NoDir or the set of installed extensions
    server,        \* ~/.vscode-server: NoDir or [bin, extensions]
    temps,         \* number of temporary directories created so far
    \* ---- Install ----
    ipc,           \* position inside Install
    loaded,        \* the manifest as loaded by json.loads
    ik,            \* index of the extension entry of the resolution loop
    to_install,
    ilog,          \* what Install did, in order
    iret,          \* "running", "True", "False" or the exception that left Install
    applies,       \* number of Install runs started
    before,        \* the two directories as they were when the current run started
    history,       \* the two directories after each run that returned True
    \* ---- main ----
    mode,          \* "-o" or "-i", "" when Clone or Install is studied on its own
    dir_arg,       \* what the directory argument names: "missing", "file" or "dir"
    mpc,           \* position inside main
    exit_status,   \* <<>> while the process runs, <<status>> once it has exited
    \* ---- the pure functions, applied on their own ----
    fargs,         \* the function and its arguments
    fresult        \* <<>> before the application, <<value, ...>> after it

cstate == <<ed, updates, installed, cpc, ci, cj, ext_list, parsed, got_all_platforms,
            manifest, manifest_file, files, dl_log, uuids, cret>>
istate == <<system, input_file, local_extensions, server, temps, ipc, loaded, ik,
            to_install, ilog, iret, applies, before, history>>
mstate == <<mode, dir_arg, mpc, exit_status>>
fstate == <<fargs, fresult>>

\* What Install leaves alone, and what Clone leaves alone.
cvars == <<cstate, mstate, fstate>>
ivars == <<istate, mstate, fstate>>
vars == <<cstate, istate, mstate, fstate>>

-----------------------------------------------------------------------------
(* Bounds of the model *)

MaxExts == 2        \* longest extension list the editor reports
MaxUpdates == 1     \* editor self-updates during one capture
MaxApplies == 2     \* Install runs in a row on one target
MaxTokenLen == 4    \* longest generated token given to ParseExtensionString

-----------------------------------------------------------------------------
(* Strings *)

Min(a, b) == IF a < b THEN a ELSE b

\* Code-point order of the characters that occur in the model's strings.
Ascii == "-.0123456789@abcdefghijklmnopqrstuvwxyz"

CharAt(s, i) == SubSeq(s, i, i)

CharRank(c) == CHOOSE i \in 1..Len(Ascii) : CharAt(Ascii, i) = c

\* Python's str < str.
RECURSIVE StrLess(_, _)
StrLess(a, b) ==
    IF Len(b) = 0 THEN FALSE
    ELSE IF Len(a) = 0 THEN TRUE
    ELSE IF CharAt(a, 1) = CharAt(b, 1)
         THEN StrLess(SubSeq(a, 2, Len(a)), SubSeq(b, 2, Len(b)))
         ELSE CharRank(CharAt(a, 1)) < CharRank(CharAt(b, 1))

\* Position of the first occurrence of the character c in s at or after i, 0 if none.
RECURSIVE Find(_, _, _)
Find(s, c, i) ==
    IF i > Len(s) THEN 0
    ELSE IF CharAt(s, i) = c THEN i
    ELSE Find(s, c, i + 1)

\* str.split(c) for a one-character separator.
RECURSIVE Split(_, _)
Split(s, c) ==
    LET p == Find(s, c, 1) IN
    IF p = 0 THEN <<s>>
    ELSE <<SubSeq(s, 1, p - 1)>> \o Split(SubSeq(s, p + 1, Len(s)), c)

-----------------------------------------------------------------------------
(* Identifier tables and artifact locators *)

\* Key order of the PLATFORM_IDS tables (a dict iterates in insertion order).
PlatformKeys == <<"Linux", "Windows">>

Platforms == {PlatformKeys[i] : i \in 1..Len(PlatformKeys)}

PLATFORM_IDS ==
    [installer_id |-> [Linux |-> "linux-deb-x64", Windows |-> "win32-x64-user"],
     server_id    |-> [Linux |-> "linux-x64",     Windows |-> "win32-x64"],
     extension_id |-> [Linux |-> "linux-x64",     Windows |-> "win32-x64"]]

ParseError == <<"ValueError">>

\* Variant of ParseExtensionString: the uid is cut at its first "." only.
ParseExtensionStringLoose(ext_str) ==
    LET a == Split(ext_str, "@") IN
    IF Len(a) # 2 THEN ParseError
    ELSE LET p == Find(a[1], ".", 1) IN
         IF p = 0 THEN ParseError
         ELSE <<SubSeq(a[1], 1, p - 1), SubSeq(a[1], p + 1, Len(a[1])), a[2]>>

ParseExtensionString(ext_str) ==
    LET a == Split(ext_str, "@") IN
    IF Len(a) # 2 THEN ParseError
    ELSE LET u == Split(a[1], ".") IN
         IF Len(u) # 2 THEN ParseError
         ELSE <<u[1], u[2], a[2]>>

InstallerURL(version, platform_id) ==
    "https://update.code.visualstudio.com/" \o version \o "/" \o platform_id \o "/stable"

ServerURL(commit_id, platform_id) ==
    "https://update.code.visualstudio.com/commit:" \o commit_id \o "/server-"
        \o platform_id \o "/stable"

\* platform_id "" stands for None; only the backup_api=True form is ever requested.
ExtensionURL(publisher, package, version, platform_id) ==
    LET query_params == IF platform_id # "" THEN "?targetPlatform=" \o platform_id ELSE "" IN
    "https://" \o publisher \o ".gallery.vsassets.io/_apis/public/gallery/publisher/"
        \o publisher \o "/extension/" \o package \o "/" \o version
        \o "/assetbyname/Microsoft.VisualStudio.Services.VSIXPackage" \o query_params

\* Variant of ExtensionFilename: the platform identifier is left out of the name.
ExtensionFilenameNoPlatform(publisher, package, version, platform_id) ==
    publisher \o "." \o package \o "-" \o version \o ".vsix"

ExtensionFilename(publisher, package, version, platform_id) ==
    IF platform_id = ""
    THEN publisher \o "." \o package \o "-" \o version \o ".vsix"
    ELSE publisher \o "." \o package \o "-" \o version \o "@" \o platform_id \o ".vsix"

-----------------------------------------------------------------------------
(* Download *)

\* Position of the first occurrence of the string t in s at or after i, 0 if none.
RECURSIVE FindSub(_, _, _)
FindSub(s, t, i) ==
    IF i + Len(t) - 1 > Len(s) THEN 0
    ELSE IF SubSeq(s, i, i + Len(t) - 1) = t THEN i
    ELSE FindSub(s, t, i + 1)

Quotes == {"'", "\""}

\* str.strip("\'\"")
RECURSIVE StripQuotes(_)
StripQuotes(s) ==
    IF Len(s) = 0 THEN s
    ELSE IF CharAt(s, 1) \in Quotes THEN StripQuotes(SubSeq(s, 2, Len(s)))
    ELSE IF CharAt(s, Len(s)) \in Quotes THEN StripQuotes(SubSeq(s, 1, Len(s) - 1))
    ELSE s

\* The content-disposition header of a response, "" when the header is absent.
GetFilenameFromHeaders(disposition) ==
    IF disposition = "" THEN ""
    ELSE LET p == FindSub(disposition, "filename=", 1) IN
         IF p = 0 THEN ""
         ELSE LET from == p + Len("filename=")
                  semi == Find(disposition, ";", from)
                  to   == IF semi = 0 THEN Len(disposition) ELSE semi - 1
              IN  IF to < from THEN "" ELSE StripQuotes(SubSeq(disposition, from, to))

\* What the remote host may answer to a request.
Dispositions == {"", "attachment; filename=\"vscode-pkg.tar.gz\"; size=9"}

Responses == [ok : BOOLEAN, disposition : Dispositions]

UuidNames == <<"0f8e1c", "a41b7d", "c93e52", "5d2f60", "e7a903", "b6c418", "71d0af", "29e5bb">>

\* uuid.uuid4().hex: a name no earlier call returned.
Uuid4Hex == UuidNames[Min(uuids + 1, Len(UuidNames))]

\* The path Download returns: "" when the response is not ok.
Download(url, path, response) ==
    IF ~response.ok THEN ""
    ELSE LET header_name == GetFilenameFromHeaders(response.disposition) IN
         IF path # "" THEN path
         ELSE IF header_name # "" THEN header_name
         ELSE Uuid4Hex

WriteFile(fs, path, content) ==
    [p \in DOMAIN fs \cup {path} |-> IF p = path THEN content ELSE fs[p]]

\* The effect of one Download call on the capture directory and on the log.
DownloadEffect(url, path, response) ==
    LET final_path == Download(url, path, response) IN
    /\ dl_log' = Append(dl_log, [url |-> url, path |-> path, result |-> final_path])
    /\ files' = IF final_path = "" THEN files ELSE WriteFile(files, final_path, url)
    /\ uuids' = IF response.ok /\ path = "" /\ GetFilenameFromHeaders(response.disposition) = ""
                THEN uuids + 1 ELSE uuids

-----------------------------------------------------------------------------
(* The local editor, as the capture sees it *)

EditorReleases ==
    <<[version |-> "1.85.0", commit_id |-> "abc123"],
      [version |-> "1.86.0", commit_id |-> "def456"],
      [version |-> "1.87.0", commit_id |-> "0a1b2c"]>>

\* First and second line of `code --version`.
CurVSCodeVersion == EditorReleases[ed].version

CurVSCodeCommitID == EditorReleases[ed].commit_id

\* Lines of `code --list-extensions --show-versions`.
CurVSCodeExtensions == installed

AllExtensions == <<"ms.python@2024.1.0", "golang.go@0.41.0", "a.b@1", "rust-lang.rust@0.7.9">>

InstalledLists ==
    {SubSeq(AllExtensions, 1, n) : n \in 0..Min(MaxExts, Len(AllExtensions))}
        \cup {<<"pub@1.2.3">>}

\* The editor updates itself while the capture runs. Clone asks the editor for its
\* release for the last time at line 136; a later update is not observed.
EditorUpdate ==
    /\ cret = "running"
    /\ cpc \in {"version", "commit", "installer", "server"}
    /\ updates < MaxUpdates
    /\ ed < Len(EditorReleases)
    /\ ed' = ed + 1
    /\ updates' = updates + 1
    /\ UNCHANGED <<installed, cpc, ci, cj, ext_list, parsed, got_all_platforms, manifest,
                   manifest_file, files, dl_log, uuids, cret>>
    /\ UNCHANGED ivars

-----------------------------------------------------------------------------
(* Clone *)

\* Variant of ExtensionKeys: a new entry has the platform keys only.
ExtensionKeysPlatformsOnly == Platforms

\* Line 150: the keys of a new extension entry.
ExtensionKeys == Platforms \cup {"Generic"}

\* d[key] = val on a dict kept as the sequence of its items in insertion order.
DictSet(d, key, val) ==
    IF \E i \in 1..Len(d) : d[i].key = key
    THEN [i \in 1..Len(d) |-> IF d[i].key = key THEN [key |-> key, val |-> val] ELSE d[i]]
    ELSE Append(d, [key |-> key, val |-> val])

DictGet(d, key) == d[CHOOSE i \in 1..Len(d) : d[i].key = key].val

\* The items of a dict in ascending key order (json.dump with sort_keys=True).
RECURSIVE SortKeys(_)
SortKeys(d) ==
    IF Len(d) = 0 THEN <<>>
    ELSE LET m == CHOOSE i \in 1..Len(d) :
                      \A k \in 1..Len(d) : k = i \/ StrLess(d[i].key, d[k].key)
         IN  <<d[m]>> \o SortKeys([k \in 1..(Len(d) - 1) |-> IF k < m THEN d[k] ELSE d[k + 1]])

\* The document json.dump writes for a manifest.
JsonDump(m) == [m EXCEPT !.extensions = SortKeys(m.extensions)]

EmptyManifest ==
    [version |-> "", commit_id |-> "",
     installer |-> [p \in Platforms |-> ""],
     server |-> [p \in Platforms |-> ""],
     extensions |-> <<>>]

CloneIdle == UNCHANGED <<installed, ci, cj, ext_list, parsed, got_all_platforms, manifest,
                         manifest_file, files, dl_log, uuids>>

\* A `code` query exits non-zero: check_output raises and Clone is left by the exception.
CloneQueryFails ==
    /\ cret = "running"
    /\ cpc \in {"version", "commit", "installer", "server", "list"}
    /\ cret' = "CalledProcessError"
    /\ cpc' = "done"
    /\ UNCHANGED <<ed, updates>>
    /\ CloneIdle
    /\ UNCHANGED ivars

\* Line 115.
CloneVersion ==
    /\ cret = "running" /\ cpc = "version"
    /\ manifest' = [manifest EXCEPT !.version = CurVSCodeVersion]
    /\ cpc' = "commit"
    /\ UNCHANGED <<ed, updates, installed, ci, cj, ext_list, parsed, got_all_platforms,
                   manifest_file, files, dl_log, uuids, cret>>
    /\ UNCHANGED ivars

\* Lines 116-120.
CloneCommit ==
    /\ cret = "running" /\ cpc = "commit"
    /\ manifest' = [manifest EXCEPT !.commit_id = CurVSCodeCommitID,
                                    !.installer = [p \in Platforms |-> ""],
                                    !.server = [p \in Platforms |-> ""],
                                    !.extensions = <<>>]
    /\ cpc' = "installer"
    /\ ci' = 1
    /\ UNCHANGED <<ed, updates, installed, cj, ext_list, parsed, got_all_platforms,
                   manifest_file, files, dl_log, uuids, cret>>
    /\ UNCHANGED ivars

\* Variant of RequiredObtained: the capture goes on without the artifact.
RequiredObtainedAlways(path) == TRUE

\* Lines 127-131 and 138-142: an installer or a server that was not obtained ends the capture.
RequiredObtained(path) == path # ""

\* Lines 123-131, one iteration.
CloneInstaller ==
    /\ cret = "running" /\ cpc = "installer"
    /\ \E response \in Responses :
         LET platform == PlatformKeys[ci]
             id == PLATFORM_IDS.installer_id[platform]
             url == InstallerURL(CurVSCodeVersion, id)
             path == Download(url, "", response)
         IN  /\ DownloadEffect(url, "", response)
             /\ IF RequiredObtained(path)
                THEN /\ manifest' = [manifest EXCEPT !.installer[platform] = path]
                     /\ IF ci < Len(PlatformKeys)
                        THEN ci' = ci + 1 /\ cpc' = cpc
                        ELSE ci' = 1 /\ cpc' = "server"
                     /\ cret' = cret
                ELSE /\ cret' = "False"
                     /\ cpc' = "done"
                     /\ UNCHANGED <<manifest, ci>>
    /\ UNCHANGED <<ed, updates, installed, cj, ext_list, parsed, got_all_platforms,
                   manifest_file>>
    /\ UNCHANGED ivars

\* Lines 134-142, one iteration.
CloneServer ==
    /\ cret = "running" /\ cpc = "server"
    /\ \E response \in Responses :
         LET platform == PlatformKeys[ci]
             id == PLATFORM_IDS.server_id[platform]
             url == ServerURL(CurVSCodeCommitID, id)
             path == Download(url, "", response)
         IN  /\ DownloadEffect(url, "", response)
             /\ IF RequiredObtained(path)
                THEN /\ manifest' = [manifest EXCEPT !.server[platform] = path]
                     /\ IF ci < Len(PlatformKeys)
                        THEN ci' = ci + 1 /\ cpc' = cpc
                        ELSE ci' = 1 /\ cpc' = "list"
                     /\ cret' = cret
                ELSE /\ cret' = "False"
                     /\ cpc' = "done"
                     /\ UNCHANGED <<manifest, ci>>
    /\ UNCHANGED <<ed, updates, installed, cj, ext_list, parsed, got_all_platforms,
                   manifest_file>>
    /\ UNCHANGED ivars

\* Line 145: the extension list is read once, when the loop starts.
CloneList ==
    /\ cret = "running" /\ cpc = "list"
    /\ ext_list' = CurVSCodeExtensions
    /\ cj' = 1
    /\ cpc' = IF Len(CurVSCodeExtensions) = 0 THEN "write" ELSE "ext"
    /\ UNCHANGED <<ed, updates, installed, ci, parsed, got_all_platforms, manifest,
                   manifest_file, files, dl_log, uuids, cret>>
    /\ UNCHANGED ivars

\* Lines 147-150: the head of one iteration of the extension loop.
CloneExtension ==
    /\ cret = "running" /\ cpc = "ext"
    /\ LET ext_str == ext_list[cj]
           t == ParseExtensionString(ext_str)
       IN  IF t = ParseError
           THEN /\ cret' = "ValueError"
                /\ cpc' = "done"
                /\ UNCHANGED <<parsed, got_all_platforms, manifest, ci>>
           ELSE /\ parsed' = t
                /\ got_all_platforms' = TRUE
                /\ manifest' = [manifest EXCEPT !.extensions =
                                   DictSet(@, ext_str, [k \in ExtensionKeys |-> ""])]
                /\ ci' = 1
                /\ cpc' = "ext_platform"
                /\ cret' = cret
    /\ UNCHANGED <<ed, updates, installed, cj, ext_list, manifest_file, files, dl_log, uuids>>
    /\ UNCHANGED ivars

\* Variant of GotAll: the flag follows the last attempt alone.
GotAllLast(got_all, path) == path # ""

\* Lines 157-160: got_all_platforms after one platform-specific attempt.
GotAll(got_all, path) == IF path # "" THEN got_all ELSE FALSE

\* Lines 153-160, one iteration.
CloneExtensionPlatform ==
    /\ cret = "running" /\ cpc = "ext_platform"
    /\ \E response \in Responses :
         LET ext_str == ext_list[cj]
             platform == PlatformKeys[ci]
             id == PLATFORM_IDS.extension_id[platform]
             url == ExtensionURL(parsed[1], parsed[2], parsed[3], id)
             name == ExtensionFilename(parsed[1], parsed[2], parsed[3], id)
             path == Download(url, name, response)
             entry == DictGet(manifest.extensions, ext_str)
         IN  /\ DownloadEffect(url, name, response)
             /\ manifest' = IF path # ""
                            THEN [manifest EXCEPT !.extensions =
                                     DictSet(@, ext_str, [entry EXCEPT ![platform] = path])]
                            ELSE manifest
             /\ got_all_platforms' = GotAll(got_all_platforms, path)
             /\ IF ci < Len(PlatformKeys)
                THEN ci' = ci + 1 /\ cpc' = cpc
                ELSE ci' = 1 /\ cpc' = "ext_generic"
    /\ UNCHANGED <<ed, updates, installed, cj, ext_list, parsed, manifest_file, cret>>
    /\ UNCHANGED ivars

\* Variant of NeedGeneric: the platform-agnostic package is fetched for every extension.
NeedGenericAlways(got_all) == TRUE

\* Line 163: whether the platform-agnostic package is fetched as well.
NeedGeneric(got_all) == ~got_all

\* Variant of GenericObtained: the capture goes on without the Generic package.
GenericObtainedAlways(path) == TRUE

\* Lines 166-170: an extension without its needed Generic package ends the capture.
GenericObtained(path) == path # ""

NextExtension ==
    IF cj < Len(ext_list) THEN cj' = cj + 1 /\ cpc' = "ext" ELSE cj' = cj /\ cpc' = "write"

\* Lines 163-170.
CloneExtensionGeneric ==
    /\ cret = "running" /\ cpc = "ext_generic"
    /\ IF NeedGeneric(got_all_platforms)
       THEN \E response \in Responses :
              LET ext_str == ext_list[cj]
                  url == ExtensionURL(parsed[1], parsed[2], parsed[3], "")
                  name == ExtensionFilename(parsed[1], parsed[2], parsed[3], "")
                  path == Download(url, name, response)
                  entry == DictGet(manifest.extensions, ext_str)
              IN  /\ DownloadEffect(url, name, response)
                  /\ IF GenericObtained(path)
                     THEN /\ manifest' = [manifest EXCEPT !.extensions =
                                   DictSet(@, ext_str, [entry EXCEPT !["Generic"] = path])]
                          /\ NextExtension
                          /\ cret' = cret
                     ELSE /\ cret' = "False"
                          /\ cpc' = "done"
                          /\ UNCHANGED <<manifest, cj>>
       ELSE /\ NextExtension
            /\ UNCHANGED <<manifest, files, dl_log, uuids, cret>>
    /\ UNCHANGED <<ed, updates, installed, ci, ext_list, parsed, got_all_platforms,
                   manifest_file>>
    /\ UNCHANGED ivars

\* Lines 173-176.
CloneWrite ==
    /\ cret = "running" /\ cpc = "write"
    /\ manifest_file' = <<JsonDump(manifest)>>
    /\ cret' = "True"
    /\ cpc' = "done"
    /\ UNCHANGED <<ed, updates, installed, ci, cj, ext_list, parsed, got_all_platforms,
                   manifest, files, dl_log, uuids>>
    /\ UNCHANGED ivars

-----------------------------------------------------------------------------
(* The target of the apply *)

Has(d, key) == key \in DOMAIN d

\* A directory that does not exist.
Absent == [exists |-> FALSE, entries |-> {}]

Dir(entries) == [exists |-> TRUE, entries |-> entries]

\* ~/.vscode-server: bin holds (commit id, payload) pairs, extensions is a directory.
NoServer == [exists |-> FALSE, bin |-> {}, extensions |-> Absent]

\* shutil.rmtree(d, ignore_errors=True)
RmTree(d) == Absent

\* Variant of RmServerTree: the previous server installation is kept.
RmServerTreeKeep(d) == d

RmServerTree(d) == NoServer

\* Variant of CopyTree: the destination is created and nothing is copied into it.
CopyTreeNothing(src, dst) == Dir(dst.entries)

\* shutil.copytree(src, dst, dirs_exist_ok=True) on an existing src.
CopyTree(src, dst) == Dir(dst.entries \cup src.entries)

\* The directory Install runs in (os.chdir(dir)).
InputDir == "/media/usb/vsclone"

\* os.path.abspath of a path relative to the working directory.
AbsPath(path) == IF Len(path) > 0 /\ CharAt(path, 1) = "/" THEN path ELSE InputDir \o "/" \o path

Entry(l, w, g) == [Linux |-> l, Windows |-> w, Generic |-> g]

Item(key, val) == [key |-> key, val |-> val]

Captured ==
    [version |-> "1.85.0", commit_id |-> "abc123",
     installer |-> [Linux |-> "code_1.85.0_amd64.deb", Windows |-> "VSCodeUserSetup-x64-1.85.0.exe"],
     server |-> [Linux |-> "vscode-server-linux-x64.tar.gz", Windows |-> "vscode-server-win32-x64.zip"],
     extensions |-> <<>>]

\* manifest.json documents handed to Install: as Clone writes them, and edited by hand.
InputManifests ==
    {[Captured EXCEPT !.extensions =
        <<Item("golang.go@0.41.0", Entry("", "", "golang.go-0.41.0.vsix")),
          Item("ms.python@2024.1.0", Entry("ms.python-2024.1.0@linux-x64.vsix",
                                           "ms.python-2024.1.0@win32-x64.vsix", ""))>>],
     [Captured EXCEPT !.extensions =
        <<Item("a.b@1", Entry("a.b-1@linux-x64.vsix", "", "a.b-1.vsix"))>>],
     [Captured EXCEPT !.extensions =
        <<Item("a.b@1", Entry("", "a.b-1@win32-x64.vsix", "")),
          Item("golang.go@0.41.0", Entry("", "", "golang.go-0.41.0.vsix"))>>],
     [Captured EXCEPT !.extensions =
        <<Item("golang.go@0.41.0", Entry("", "", "golang.go-0.41.0.vsix")),
          Item("ms.python@2024.1.0", Entry("", "", ""))>>],
     Captured,
     [Captured EXCEPT !.installer = [Linux |-> "code.deb", Windows |-> "code.exe", Darwin |-> "code.dmg"],
                      !.extensions = <<Item("a.b@1", [Linux |-> "", Windows |-> "", Darwin |-> "",
                                                       Generic |-> "a.b-1.vsix"])>>],
     [k \in {"version", "installer", "server", "extensions"} |->
        [Captured EXCEPT !.extensions =
            <<Item("a.b@1", Entry("", "", "a.b-1.vsix"))>>][k]],
     [k \in {"version", "commit_id", "installer", "server"} |-> Captured[k]],
     [k \in {"version", "commit_id", "installer", "extensions"} |->
        [Captured EXCEPT !.extensions =
            <<Item("a.b@1", Entry("", "", "a.b-1.vsix"))>>][k]],
     [Captured EXCEPT !.extensions = <<Item("a.b@1", [Linux |-> "a.b-1@linux-x64.vsix"])>>]}

InputFiles ==
    {[state |-> "absent", doc |-> Captured], [state |-> "corrupt", doc |-> Captured]}
        \cup {[state |-> "ok", doc |-> m] : m \in InputManifests}

StaleExtension == "/home/user/.vscode/extensions/legacy.theme-0.1.0"

StaleServer ==
    [exists |-> TRUE, bin |-> {<<"9f00aa", "vscode-server-linux-x64">>},
     extensions |-> Dir({StaleExtension})]

\* What the target may hold before the first apply.
PriorTargets ==
    {[local |-> Absent, server |-> NoServer],
     [local |-> Dir({StaleExtension}), server |-> NoServer],
     [local |-> Dir({StaleExtension}), server |-> StaleServer],
     [local |-> Absent, server |-> [StaleServer EXCEPT !.extensions = Absent]]}

ExitCodes == {0, 1}

-----------------------------------------------------------------------------
(* Install *)

SupportedSystems == {"Linux", "Windows"}

Systems == SupportedSystems \cup {"Darwin"}

\* getpass.getuser()
User == "user"

TempNames == <<"tmpk3x9", "tmpq81z", "tmp7w2c", "tmpd05m">>

\* " ".join(words)
RECURSIVE Join(_)
Join(words) ==
    IF Len(words) = 0 THEN ""
    ELSE IF Len(words) = 1 THEN words[1]
    ELSE words[1] \o " " \o Join(Tail(words))

\* Variant of InstallIdle: Install writes the manifest it loaded back to manifest.json.
InstallIdleRewrite ==
    /\ UNCHANGED <<system, applies, before>>
    /\ input_file' = [state |-> "ok", doc |-> loaded]

InstallIdle == UNCHANGED <<system, input_file, applies, before>>

\* Variant of InstallerCommand: every system other than Linux executes the installer.
InstallerCommandAnySystem(sys, installer) ==
    IF sys = "Linux" THEN Split("sudo apt-get install -y " \o installer, " ")
    ELSE Split(installer, " ")

\* Lines 198-204: the argv of the native installation, <<>> on an unsupported system.
InstallerCommand(sys, installer) ==
    IF sys = "Linux" THEN Split("sudo apt-get install -y " \o installer, " ")
    ELSE IF sys = "Windows" THEN Split(installer, " ")
    ELSE <<>>

\* Variant of InstallerSucceeded: the exit status of the installer is ignored.
InstallerSucceededAlways(rc) == TRUE

\* Lines 199, 201: the installer's exit status lets Install go on.
InstallerSucceeded(rc) == rc = 0

\* Variant of Compatible: an entry without artifact is not detected.
CompatibleAlways(platform_vsix, generic_vsix) == TRUE

\* Lines 211-217: the entry has an artifact for the running system.
Compatible(platform_vsix, generic_vsix) == platform_vsix # "" \/ generic_vsix # ""

\* Variant of Select: the Generic path is preferred to the running system's.
SelectGenericFirst(platform_vsix, generic_vsix) ==
    IF generic_vsix # "" THEN generic_vsix ELSE platform_vsix

\* Lines 211-214: the artifact appended to to_install.
Select(platform_vsix, generic_vsix) == IF platform_vsix # "" THEN platform_vsix ELSE generic_vsix

\* Variant of ServerCoreDir: the build's directory is named after the temporary
\* directory of the run instead of the commit id.
ServerCoreDirTemp(m) == TempNames[Min(temps + 1, Len(TempNames))]

\* Line 223: the name of the server build's directory under ~/.vscode-server/bin.
ServerCoreDir(m) == m.commit_id

\* Lines 230-233.
RECURSIVE ExtensionArgs(_)
ExtensionArgs(vsixs) ==
    IF Len(vsixs) = 0 THEN <<>>
    ELSE <<"--install-extension", vsixs[1]>> \o ExtensionArgs(Tail(vsixs))

\* Lines 234-238.
ExtensionCommand(sys, extension_args) ==
    IF sys = "Windows"
    THEN <<"powershell", "Start-Process", "-verb", "runas",
           "\"C:\\Users\\" \o User \o "\\AppData\\Local\\Programs\\Microsoft VS Code\\bin\\code\"",
           "\"" \o Join(extension_args) \o "\"">>
    ELSE <<"code">> \o extension_args

\* Variant of ExtensionsSucceeded: the exit status of the extension install is ignored.
ExtensionsSucceededAlways(rc) == TRUE

\* Line 239: the extension install's exit status lets Install go on.
ExtensionsSucceeded(rc) == rc = 0

Event(op, arg, rc) == [op |-> op, arg |-> arg, rc |-> rc]

Leave(result) ==
    /\ iret' = result
    /\ ipc' = "done"

\* Lines 193-194.
InstallLoad ==
    /\ iret = "running" /\ ipc = "load"
    /\ IF input_file.state = "absent" THEN Leave("FileNotFoundError") /\ UNCHANGED loaded
       ELSE IF input_file.state = "corrupt" THEN Leave("JSONDecodeError") /\ UNCHANGED loaded
       ELSE loaded' = input_file.doc /\ ipc' = "installer" /\ iret' = iret
    /\ InstallIdle
    /\ UNCHANGED <<local_extensions, server, temps, ik, to_install, ilog, history>>
    /\ UNCHANGED cvars

\* Lines 197-204.
InstallEditor ==
    /\ iret = "running" /\ ipc = "installer"
    /\ IF ~Has(loaded, "installer") \/ ~Has(loaded.installer, system)
       THEN Leave("KeyError") /\ UNCHANGED <<ilog, ik, to_install>>
       ELSE LET cmd == InstallerCommand(system, AbsPath(loaded.installer[system])) IN
            IF cmd = <<>>
            THEN Leave("False") /\ UNCHANGED <<ilog, ik, to_install>>
            ELSE \E rc \in ExitCodes :
                   /\ ilog' = Append(ilog, Event("installer", cmd, rc))
                   /\ IF InstallerSucceeded(rc)
                      THEN ipc' = "resolve" /\ iret' = iret /\ ik' = 1 /\ to_install' = <<>>
                      ELSE Leave("False") /\ UNCHANGED <<ik, to_install>>
    /\ InstallIdle
    /\ UNCHANGED <<local_extensions, server, temps, loaded, history>>
    /\ UNCHANGED cvars

\* Lines 207-217, one iteration (the loop ends when the entries are exhausted).
InstallResolve ==
    /\ iret = "running" /\ ipc = "resolve"
    /\ IF ~Has(loaded, "extensions")
       THEN Leave("KeyError") /\ UNCHANGED <<ilog, ik, to_install>>
       ELSE IF ik > Len(loaded.extensions)
       THEN /\ ilog' = Append(ilog, Event("resolved", to_install, 0))
            /\ ipc' = "wipe" /\ iret' = iret
            /\ UNCHANGED <<ik, to_install>>
       ELSE LET entry == loaded.extensions[ik].val IN
            IF ~Has(entry, system) \/ ~Has(entry, "Generic")
            THEN Leave("KeyError") /\ UNCHANGED <<ilog, ik, to_install>>
            ELSE IF Compatible(entry[system], entry["Generic"])
            THEN /\ to_install' = Append(to_install, Select(entry[system], entry["Generic"]))
                 /\ ik' = ik + 1
                 /\ UNCHANGED <<ipc, iret, ilog>>
            ELSE Leave("False") /\ UNCHANGED <<ilog, ik, to_install>>
    /\ InstallIdle
    /\ UNCHANGED <<local_extensions, server, temps, loaded, history>>
    /\ UNCHANGED cvars

\* Lines 219-227.
InstallWipe ==
    /\ iret = "running" /\ ipc = "wipe"
    /\ IF ~Has(loaded, "commit_id")
       THEN Leave("KeyError") /\ UNCHANGED <<ilog, local_extensions, server>>
       ELSE /\ local_extensions' = RmTree(local_extensions)
            /\ server' = RmServerTree(server)
            /\ ilog' = ilog \o <<Event("rmtree", <<"~/.vscode/extensions">>, 0),
                                 Event("rmtree", <<"~/.vscode-server">>, 0)>>
            /\ ipc' = "extensions" /\ iret' = iret
    /\ InstallIdle
    /\ UNCHANGED <<temps, loaded, ik, to_install, history>>
    /\ UNCHANGED cvars

Range(f) == {f[i] : i \in DOMAIN f}

\* Lines 230-239. The editor installs every artifact of the batch when it exits zero;
\* it may have installed any part of it when it does not. Started without an
\* artifact it may or may not create its extension directory.
InstallExtensions ==
    /\ iret = "running" /\ ipc = "extensions"
    /\ LET vsixs == [i \in 1..Len(to_install) |-> AbsPath(to_install[i])]
           cmd == ExtensionCommand(system, ExtensionArgs(vsixs))
       IN  \E rc \in ExitCodes, done \in SUBSET Range(vsixs), created \in BOOLEAN :
             /\ rc = 0 => done = Range(vsixs)
             /\ done # {} => created
             /\ ilog' = Append(ilog, Event("install-extension", cmd, rc))
             /\ local_extensions' = IF created
                                    THEN Dir(local_extensions.entries \cup done)
                                    ELSE local_extensions
             /\ IF ExtensionsSucceeded(rc)
                THEN ipc' = "server" /\ iret' = iret
                ELSE Leave("False")
    /\ InstallIdle
    /\ UNCHANGED <<server, temps, loaded, ik, to_install, history>>
    /\ UNCHANGED cvars

\* Lines 242-246. unpack_archive or the copy of the payload may raise (unknown
\* archive format, no top-level directory of the expected name).
InstallServer ==
    /\ iret = "running" /\ ipc = "server"
    /\ IF ~Has(loaded, "server") \/ ~Has(loaded.server, system)
       THEN Leave("KeyError") /\ UNCHANGED <<ilog, server, temps>>
       ELSE LET archive == loaded.server[system]
                temp_dir == TempNames[Min(temps + 1, Len(TempNames))]
                archive_payload == temp_dir \o "/" \o Split(archive, ".")[1]
            IN  /\ temps' = temps + 1
                /\ \E unpacked \in BOOLEAN :
                     IF unpacked
                     THEN /\ ilog' = ilog \o <<Event("unpack_archive", <<archive, temp_dir>>, 0),
                                               Event("copytree", <<archive_payload, ServerCoreDir(loaded)>>, 0)>>
                          /\ server' = [server EXCEPT !.exists = TRUE,
                                           !.bin = @ \cup {<<ServerCoreDir(loaded), Split(archive, ".")[1]>>}]
                          /\ ipc' = "copy" /\ iret' = iret
                     ELSE /\ ilog' = Append(ilog, Event("unpack_archive", <<archive, temp_dir>>, 1))
                          /\ Leave("ReadError")
                          /\ UNCHANGED server
    /\ InstallIdle
    /\ UNCHANGED <<local_extensions, loaded, ik, to_install, history>>
    /\ UNCHANGED cvars

\* Lines 247-249.
InstallCopyExtensions ==
    /\ iret = "running" /\ ipc = "copy"
    /\ IF ~local_extensions.exists
       THEN Leave("FileNotFoundError") /\ UNCHANGED <<ilog, server, history>>
       ELSE /\ server' = [server EXCEPT !.exists = TRUE,
                             !.extensions = CopyTree(local_extensions, @)]
            /\ ilog' = Append(ilog, Event("copytree", <<"~/.vscode/extensions", "~/.vscode-server/extensions">>, 0))
            /\ history' = Append(history, [before |-> before, local |-> local_extensions,
                                           server |-> server'])
            /\ Leave("True")
    /\ InstallIdle
    /\ UNCHANGED <<local_extensions, temps, loaded, ik, to_install>>
    /\ UNCHANGED cvars

\* Install is run again on the same target with the same directory.
InstallAgain ==
    /\ ipc = "done"
    /\ applies < MaxApplies
    /\ applies' = applies + 1
    /\ before' = [local |-> local_extensions, server |-> server]
    /\ ipc' = "load"
    /\ iret' = "running"
    /\ ilog' = <<>>
    /\ to_install' = <<>>
    /\ ik' = 1
    /\ loaded' = EmptyManifest
    /\ UNCHANGED <<system, input_file, local_extensions, server, temps, history>>
    /\ UNCHANGED cvars

-----------------------------------------------------------------------------
(* Specifications *)

\* Nothing of a capture has happened.
CloneFresh ==
    /\ ed = 1
    /\ updates = 0
    /\ ci = 1
    /\ cj = 1
    /\ ext_list = <<>>
    /\ parsed = <<"", "", "">>
    /\ got_all_platforms = TRUE
    /\ manifest = EmptyManifest
    /\ manifest_file = <<>>
    /\ files = <<>>
    /\ dl_log = <<>>
    /\ uuids = 0

CloneStart ==
    /\ CloneFresh
    /\ cpc = "version"
    /\ cret = "running"

\* Nothing of an apply has happened.
InstallFresh ==
    /\ loaded = EmptyManifest
    /\ ik = 1
    /\ to_install = <<>>
    /\ ilog = <<>>
    /\ applies = 1
    /\ temps = 0
    /\ history = <<>>
    /\ before = [local |-> local_extensions, server |-> server]

InstallStart ==
    /\ InstallFresh
    /\ ipc = "load"
    /\ iret = "running"

\* main is not running.
NoMain ==
    /\ mode = ""
    /\ dir_arg = "dir"
    /\ mpc = "none"
    /\ exit_status = <<>>

\* No pure function is applied on its own.
NoFunction ==
    /\ fargs = [f |-> "", a |-> <<>>]
    /\ fresult = <<>>

\* The environment of an apply while a capture is studied.
NoTarget ==
    /\ system = "Linux"
    /\ input_file = [state |-> "absent", doc |-> Captured]
    /\ local_extensions = Absent
    /\ server = NoServer

\* One capture on a machine whose editor reports any of the extension lists.
InitClone ==
    /\ installed \in InstalledLists
    /\ CloneStart
    /\ NoTarget
    /\ InstallStart
    /\ NoMain
    /\ NoFunction

NextClone ==
    \/ EditorUpdate
    \/ CloneQueryFails
    \/ CloneVersion
    \/ CloneCommit
    \/ CloneInstaller
    \/ CloneServer
    \/ CloneList
    \/ CloneExtension
    \/ CloneExtensionPlatform
    \/ CloneExtensionGeneric
    \/ CloneWrite

SpecClone == InitClone /\ [][NextClone]_vars

\* Applies of one directory on one target.
InitInstall ==
    /\ installed = <<>>
    /\ CloneStart
    /\ system \in Systems
    /\ input_file \in InputFiles
    /\ \E t \in PriorTargets : local_extensions = t.local /\ server = t.server
    /\ InstallStart
    /\ NoMain
    /\ NoFunction

NextInstall ==
    \/ InstallLoad
    \/ InstallEditor
    \/ InstallResolve
    \/ InstallWipe
    \/ InstallExtensions
    \/ InstallServer
    \/ InstallCopyExtensions
    \/ InstallAgain

SpecInstall == InitInstall /\ [][NextInstall]_vars

-----------------------------------------------------------------------------
(* main *)

\* Variant of MainReturn: main returns 0 whatever Clone or Install returned.
MainReturnZero(success) == 0

\* Lines 296-300: the value main returns.
MainReturn(success) == IF ~success THEN -1 ELSE 0

\* Line 303: exit(code); the process status keeps the low eight bits of the code.
ExitStatus(code) == code % 256

\* The status of an interpreter that is left by an exception nobody catches.
UncaughtException == 1

DirArgs == {"missing", "file", "dir"}

\* Lines 276-294: the directory argument is checked and Clone or Install is entered.
\* os.mkdir of a missing output directory may itself raise.
MainArgs ==
    /\ mpc = "start"
    /\ IF mode = "-o"
       THEN IF dir_arg = "file"
            THEN /\ exit_status' = <<ExitStatus(-1)>>
                 /\ mpc' = "exited"
                 /\ UNCHANGED <<dir_arg, cpc, cret, ipc, iret>>
            ELSE \E made \in BOOLEAN :
                   IF dir_arg = "missing" /\ ~made
                   THEN /\ exit_status' = <<UncaughtException>>
                        /\ mpc' = "exited"
                        /\ UNCHANGED <<dir_arg, cpc, cret, ipc, iret>>
                   ELSE /\ dir_arg' = "dir"
                        /\ cpc' = "version" /\ cret' = "running"
                        /\ mpc' = "called"
                        /\ UNCHANGED <<exit_status, ipc, iret>>
       ELSE IF dir_arg # "dir"
            THEN /\ exit_status' = <<ExitStatus(-1)>>
                 /\ mpc' = "exited"
                 /\ UNCHANGED <<dir_arg, cpc, cret, ipc, iret>>
            ELSE /\ ipc' = "load" /\ iret' = "running"
                 /\ mpc' = "called"
                 /\ UNCHANGED <<dir_arg, exit_status, cpc, cret>>
    /\ UNCHANGED <<mode, fstate>>
    /\ UNCHANGED <<ed, updates, installed, ci, cj, ext_list, parsed, got_all_platforms,
                   manifest, manifest_file, files, dl_log, uuids>>
    /\ UNCHANGED <<system, input_file, local_extensions, server, temps, loaded, ik,
                   to_install, ilog, applies, before, history>>

\* Lines 296-303: Clone or Install has returned, or an exception has left it.
MainExit ==
    /\ mpc = "called"
    /\ LET outcome == IF mode = "-o" THEN cret ELSE iret IN
       /\ outcome # "running"
       /\ exit_status' = IF outcome \in {"True", "False"}
                         THEN <<ExitStatus(MainReturn(outcome = "True"))>>
                         ELSE <<UncaughtException>>
    /\ mpc' = "exited"
    /\ UNCHANGED <<mode, dir_arg, fstate, cstate, istate>>

\* One run of the program, in either mode.
InitMain ==
    /\ mode \in {"-o", "-i"}
    /\ dir_arg \in DirArgs
    /\ mpc = "start"
    /\ exit_status = <<>>
    /\ IF mode = "-o"
       THEN installed \in InstalledLists /\ NoTarget
       ELSE /\ installed = <<>>
            /\ system \in Systems
            /\ input_file \in InputFiles
            /\ \E t \in PriorTargets : local_extensions = t.local /\ server = t.server
    /\ CloneFresh /\ cpc = "idle" /\ cret = "idle"
    /\ InstallFresh /\ ipc = "idle" /\ iret = "idle"
    /\ NoFunction

NextMain ==
    \/ MainArgs
    \/ MainExit
    \/ EditorUpdate
    \/ CloneQueryFails
    \/ CloneVersion
    \/ CloneCommit
    \/ CloneInstaller
    \/ CloneServer
    \/ CloneList
    \/ CloneExtension
    \/ CloneExtensionPlatform
    \/ CloneExtensionGeneric
    \/ CloneWrite
    \/ InstallLoad
    \/ InstallEditor
    \/ InstallResolve
    \/ InstallWipe
    \/ InstallExtensions
    \/ InstallServer
    \/ InstallCopyExtensions

SpecMain == InitMain /\ [][NextMain]_vars

-----------------------------------------------------------------------------
(* The pure functions applied on their own *)

Publishers == {"a", "a.b"}

Packages == {"b", "b-1", "c", "b.c"}

Versions == {"1", "2", "1-2", "1@linux-x64"}

PlatformIdChoices == {"", "linux-x64", "win32-x64"}

\* (publisher, package, version, platform identifier or "" for None)
FilenameInputs == Publishers \X Packages \X Versions \X PlatformIdChoices

TokenAlphabet == {"a", ".", "@"}

RECURSIVE TokensOfLen(_)
TokensOfLen(n) ==
    IF n = 0 THEN {""}
    ELSE {t \o c : t \in TokensOfLen(n - 1), c \in TokenAlphabet}

Tokens ==
    UNION {TokensOfLen(n) : n \in 0..MaxTokenLen} \cup {"pub.pkg@1.2.3", "pub@1.2.3"}

FunctionInputs ==
    {[f |-> "ExtensionFilename", a |-> <<x, y>>] : x, y \in FilenameInputs}
        \cup {[f |-> "ParseExtensionString", a |-> <<t>>] : t \in Tokens}

ApplyExtensionFilename ==
    /\ fargs.f = "ExtensionFilename"
    /\ fresult = <<>>
    /\ fresult' = [i \in 1..2 |->
                      ExtensionFilename(fargs.a[i][1], fargs.a[i][2], fargs.a[i][3], fargs.a[i][4])]
    /\ UNCHANGED <<fargs, cstate, istate, mstate>>

ApplyParseExtensionString ==
    /\ fargs.f = "ParseExtensionString"
    /\ fresult = <<>>
    /\ fresult' = <<ParseExtensionString(fargs.a[1])>>
    /\ UNCHANGED <<fargs, cstate, istate, mstate>>

InitFunctions ==
    /\ fargs \in FunctionInputs
    /\ fresult = <<>>
    /\ installed = <<>>
    /\ NoTarget
    /\ CloneFresh /\ cpc = "idle" /\ cret = "idle"
    /\ InstallFresh /\ ipc = "idle" /\ iret = "idle"
    /\ NoMain

NextFunctions ==
    \/ ApplyExtensionFilename
    \/ ApplyParseExtensionString

SpecFunctions == InitFunctions /\ [][NextFunctions]_vars

-----------------------------------------------------------------------------
(* Properties of Clone *)

Releases == {EditorReleases[i] : i \in 1..Len(EditorReleases)}

KnownTokens == UNION {{l[j] : j \in 1..Len(l)} : l \in InstalledLists}

PackageIds == {PLATFORM_IDS.extension_id[p] : p \in Platforms} \cup {""}

\* The file name Clone gives to the package of an extension token for a platform
\* identifier ("" for the platform-agnostic package).
PackageNames ==
    [t \in {k \in KnownTokens : ParseExtensionString(k) # ParseError} |->
        [id \in PackageIds |->
            LET u == ParseExtensionString(t) IN ExtensionFilename(u[1], u[2], u[3], id)]]

SpecificName(j, p) == PackageNames[ext_list[j]][PLATFORM_IDS.extension_id[p]]

GenericName(j) == PackageNames[ext_list[j]][""]

Attempted(name) == \E l \in 1..Len(dl_log) : dl_log[l].path = name

Failed(name) == \E l \in 1..Len(dl_log) : dl_log[l].path = name /\ dl_log[l].result = ""

Succeeded(name) == \E l \in 1..Len(dl_log) : dl_log[l].path = name /\ dl_log[l].result # ""

Listed == {j \in 1..Len(ext_list) : ext_list[j] \in DOMAIN PackageNames}

\* The extension loop is through with the platform-specific attempts of the j-th extension.
Tried(j) ==
    /\ j \in Listed
    /\ \/ j < cj
       \/ j = cj /\ cpc \in {"ext_generic", "write"}
       \/ j = cj /\ cpc = "done" /\ cret \in {"True", "False"}

\* The extension loop is through with the j-th extension and goes on.
Passed(j) ==
    /\ j \in Listed
    /\ \/ j < cj
       \/ j = cj /\ cpc = "write"
       \/ j = cj /\ cpc = "done" /\ cret = "True"

Written == manifest_file # <<>>

\* C1: every extension entry of a written manifest has a non-empty path among the
\* platform paths and Generic; when a platform-specific download and the Generic
\* download of one extension both fail, Clone returns False and no manifest is written.
C1_EntryNeverEmpty ==
    /\ Written =>
         \A i \in 1..Len(manifest_file[1].extensions) :
            \E k \in ExtensionKeys : manifest_file[1].extensions[i].val[k] # ""
    /\ \A j \in Listed :
         (/\ \E p \in Platforms : Failed(SpecificName(j, p))
          /\ Failed(GenericName(j)))
            => cret = "False" /\ ~Written

\* A manifest was written whose entries needed the fallback: one platform path is empty.
C1_Witness ==
    /\ Written
    /\ Len(manifest_file[1].extensions) = MaxExts
    /\ \E i \in 1..Len(manifest_file[1].extensions) :
          \E p \in Platforms : manifest_file[1].extensions[i].val[p] = ""

\* C2: every platform's specific package of an extension is attempted, whatever the
\* other attempts gave; when all succeed the Generic package is not downloaded and the
\* Generic path is empty; when exactly one of the two fails and the Generic download
\* succeeds, the succeeding platform's path is set, the failing one's is empty and
\* the Generic path is non-empty.
C2_Fallback ==
    \A j \in 1..Len(ext_list) :
        /\ Tried(j) => \A p \in Platforms : Attempted(SpecificName(j, p))
        /\ Passed(j) =>
             LET entry == DictGet(manifest.extensions, ext_list[j]) IN
             /\ (\A p \in Platforms : Succeeded(SpecificName(j, p)))
                   => ~Attempted(GenericName(j)) /\ entry["Generic"] = ""
             /\ \A p, q \in Platforms :
                   (/\ p # q
                    /\ Succeeded(SpecificName(j, p))
                    /\ Failed(SpecificName(j, q))
                    /\ Succeeded(GenericName(j)))
                      => /\ entry[p] = SpecificName(j, p)
                         /\ entry[q] = ""
                         /\ entry["Generic"] = GenericName(j)
             /\ Written => DictGet(manifest_file[1].extensions, ext_list[j]) = entry

\* Clone returned True for an extension whose Linux package failed, whose Windows
\* package succeeded and whose Generic package succeeded.
C2_Witness ==
    /\ cret = "True"
    /\ \E j \in Listed :
          /\ Failed(SpecificName(j, "Linux"))
          /\ Succeeded(SpecificName(j, "Windows"))
          /\ Succeeded(GenericName(j))

InstallerURLs ==
    {InstallerURL(r.version, PLATFORM_IDS.installer_id[p]) : r \in Releases, p \in Platforms}

ServerURLs ==
    {ServerURL(r.commit_id, PLATFORM_IDS.server_id[p]) : r \in Releases, p \in Platforms}

IsInstallerURL(url) == url \in InstallerURLs

IsServerURL(url) == url \in ServerURLs

IsRequired(url) == IsInstallerURL(url) \/ IsServerURL(url)

\* C3: when the download of an installer or of a server fails, Clone returns False,
\* writes no manifest and attempts no later download; a written manifest has a
\* non-empty installer path and a non-empty server path for every platform.
C3_CompleteOrAbsent ==
    /\ \A l \in 1..Len(dl_log) :
          (IsRequired(dl_log[l].url) /\ dl_log[l].result = "")
             => cret = "False" /\ ~Written /\ l = Len(dl_log)
    /\ Written =>
          \A p \in Platforms :
             manifest_file[1].installer[p] # "" /\ manifest_file[1].server[p] # ""

\* Clone stopped at a server download that failed after both installers were obtained.
C3_Witness ==
    /\ cret = "False"
    /\ Len(dl_log) > Len(PlatformKeys)
    /\ IsServerURL(dl_log[Len(dl_log)].url)
    /\ dl_log[Len(dl_log)].result = ""
    /\ ~Written

\* C8: every installer downloaded is for the version recorded in the manifest and
\* every server downloaded is for the commit recorded in the manifest, whatever the
\* editor reports when it is queried again.
C8_CapturedRelease ==
    \A l \in 1..Len(dl_log) :
        /\ IsInstallerURL(dl_log[l].url) =>
              \E p \in Platforms :
                 dl_log[l].url = InstallerURL(manifest.version, PLATFORM_IDS.installer_id[p])
        /\ IsServerURL(dl_log[l].url) =>
              \E p \in Platforms :
                 dl_log[l].url = ServerURL(manifest.commit_id, PLATFORM_IDS.server_id[p])

-----------------------------------------------------------------------------
(* Properties of Install *)

Ops(op) == {i \in 1..Len(ilog) : ilog[i].op = op}

OpsExited(op, rc) == {i \in 1..Len(ilog) : ilog[i].op = op /\ ilog[i].rc = rc}

Materialization == Ops("unpack_archive") \cup Ops("copytree")

Before(I, j) == \E i \in I : i < j

\* C4: the extension install is invoked only after the editor installer ran and
\* exited zero; the server materialization starts only after the extension install
\* exited zero; the reset of the two directories happens after the extension
\* resolution succeeded and before the extension install.
C4_StepsOrdered ==
    /\ \A j \in Ops("install-extension") : Before(OpsExited("installer", 0), j)
    /\ \A j \in Materialization : Before(OpsExited("install-extension", 0), j)
    /\ \A j \in Ops("rmtree") : Before(Ops("resolved"), j)
    /\ \A j \in Ops("install-extension") :
          /\ Cardinality({i \in Ops("rmtree") : i < j}) = 2
          /\ \A i \in Ops("rmtree") : i < j
    /\ Cardinality(Ops("installer")) <= 1
    /\ Cardinality(Ops("install-extension")) <= 1

\* An apply went through every step with a batch of two artifacts.
C4_Witness ==
    /\ iret = "True"
    /\ Len(to_install) = 2
    /\ Ops("copytree") # {}

Untouched == local_extensions = before.local /\ server = before.server

\* C5: on a system outside the supported set Install fails before any destructive
\* step: it does not return True, the local extension directory and the server
\* directory are as they were, and neither the installer nor the extension install
\* is invoked. With a loaded manifest the failure is the report of the unsupported
\* system (False) or the KeyError of the lookup of the system in the manifest.
C5_UnsupportedSystem ==
    system \notin SupportedSystems =>
        /\ iret # "True"
        /\ (ipc = "done" /\ input_file.state = "ok") => iret \in {"False", "KeyError"}
        /\ Untouched
        /\ ilog = <<>>

\* Install reported the unsupported system on a target that has both directories.
C5_Witness ==
    /\ system \notin SupportedSystems
    /\ ipc = "done"
    /\ iret = "False"
    /\ local_extensions.exists
    /\ server.exists

WellFormed(m) ==
    /\ DOMAIN m = DOMAIN Captured
    /\ Has(m.installer, system) /\ Has(m.server, system)
    /\ \A i \in 1..Len(m.extensions) :
          Has(m.extensions[i].val, system) /\ Has(m.extensions[i].val, "Generic")

\* The entries of the manifest without an artifact for the running system.
Incompatible(m) ==
    {i \in 1..Len(m.extensions) :
        m.extensions[i].val[system] = "" /\ m.extensions[i].val["Generic"] = ""}

\* C6: when an extension entry of the manifest has the running system's path and the
\* Generic path both empty, Install returns False without removing the local
\* extension directory or the server directory, without invoking the extension
\* install and without materializing the server.
C6_NoCompatibleArtifact ==
    (/\ input_file.state = "ok"
     /\ system \in SupportedSystems
     /\ WellFormed(input_file.doc)
     /\ Incompatible(input_file.doc) # {})
        => /\ iret # "True"
           /\ (ipc = "done" /\ OpsExited("installer", 0) # {}) => iret = "False"
           /\ Untouched
           /\ Ops("rmtree") = {}
           /\ Ops("install-extension") = {}
           /\ Materialization = {}

\* Install returned False at the resolution of an entry without artifact, after the
\* editor installer exited zero, on a target that has both directories.
C6_Witness ==
    /\ input_file.state = "ok"
    /\ system \in SupportedSystems
    /\ WellFormed(input_file.doc)
    /\ Incompatible(input_file.doc) # {}
    /\ OpsExited("installer", 0) # {}
    /\ iret = "False"
    /\ local_extensions.exists
    /\ server.exists

\* The artifact of an entry for the running system: its own path first, Generic otherwise.
Expected(entry) == IF entry[system] # "" THEN entry[system] ELSE entry["Generic"]

ExpectedArgs(m) ==
    [i \in 1..(2 * Len(m.extensions)) |->
        IF i % 2 = 1 THEN "--install-extension"
        ELSE AbsPath(Expected(m.extensions[i \div 2].val))]

\* C7: the artifact selected for an entry is the running system's path when it is
\* non-empty, otherwise the Generic path; the batch passed to the extension
\* install holds exactly one artifact per extension entry of the manifest.
C7_Resolution ==
    /\ ipc \in {"resolve", "wipe", "extensions", "server", "copy"} =>
          \A i \in 1..Len(to_install) :
             to_install[i] = Expected(loaded.extensions[i].val)
    /\ \A j \in Ops("install-extension") :
          /\ Len(to_install) = Len(loaded.extensions)
          /\ IF system = "Windows"
             THEN /\ Len(ilog[j].arg) = 6
                  /\ ilog[j].arg[6] = "\"" \o Join(ExpectedArgs(loaded)) \o "\""
             ELSE /\ ilog[j].arg[1] = "code"
                  /\ Tail(ilog[j].arg) = ExpectedArgs(loaded)

\* The extension install was invoked for a manifest with an entry that has both the
\* running system's path and the Generic path, and an entry that has only Generic.
C7_Witness ==
    /\ Ops("install-extension") # {}
    /\ \E i \in 1..Len(loaded.extensions) :
          loaded.extensions[i].val[system] # "" /\ loaded.extensions[i].val["Generic"] # ""

Clean(t) == ~t.local.exists /\ ~t.server.exists

\* C9: two applies of the same manifest that both succeed, the first on a clean
\* target and the second on what the first left, leave the local extension
\* directory and the server directory in the same state.
C9_Idempotent ==
    \A i \in 1..(Len(history) - 1) :
        (/\ Clean(history[i].before)
         /\ history[i + 1].before = [local |-> history[i].local, server |-> history[i].server])
           => /\ history[i + 1].local = history[i].local
              /\ history[i + 1].server = history[i].server

\* Two successful applies in a row, the first on a clean target, with extensions.
C9_Witness ==
    /\ Len(history) >= 2
    /\ Clean(history[1].before)
    /\ history[2].before = [local |-> history[1].local, server |-> history[1].server]
    /\ history[2].local.entries # {}

Artifacts(m) == {AbsPath(Expected(m.extensions[i].val)) : i \in 1..Len(m.extensions)}

C12_InstallerFailureFatal ==
    \A j \in Ops("installer") :
        ilog[j].rc # 0 =>
            /\ ipc = "done"
            /\ iret = "False"
            /\ Untouched
            /\ Len(ilog) = 1

\* The installer exited non-zero on a target that has both directories.
C12_Witness ==
    /\ \E j \in Ops("installer") : ilog[j].rc # 0
    /\ local_extensions.exists
    /\ server.exists

\* The manifest lacks a field Install expects.
LacksField(m) ==
    \/ DOMAIN Captured \ DOMAIN m # {}
    \/ Has(m, "installer") /\ Platforms \ DOMAIN m.installer # {}
    \/ Has(m, "server") /\ Platforms \ DOMAIN m.server # {}
    \/ Has(m, "extensions") /\
          \E i \in 1..Len(m.extensions) : ExtensionKeys \ DOMAIN m.extensions[i].val # {}

\* C13: a manifest that lacks an expected field makes the apply fail at the Load
\* step: before the editor install, before the reset of the two directories and
\* before any other installation step.
C13_MissingFieldFailsAtLoad ==
    (input_file.state = "ok" /\ LacksField(input_file.doc))
        => /\ iret # "True"
           /\ ilog = <<>>
           /\ Untouched

\* C14: no step of Install changes manifest.json, whether the run succeeds, returns
\* False or is left by an exception.
C14_ManifestUnchanged == [][input_file' = input_file]_vars

\* The last run on a target ended after it had reset the two directories.
C14_Witness ==
    /\ input_file.state = "ok"
    /\ applies = MaxApplies
    /\ ipc = "done"
    /\ Ops("rmtree") # {}

-----------------------------------------------------------------------------
(* Properties of main *)

\* The selected mode went through its last step: Clone wrote the manifest, Install
\* copied the local extensions into the server.
Completed ==
    \/ mode = "-o" /\ Written
    \/ mode = "-i" /\ \E j \in Ops("copytree") : ilog[j].arg[1] = "~/.vscode/extensions"

\* A step of the run failed.
FatalStep ==
    \/ mpc = "exited" /\ cpc = "idle" /\ ipc = "idle"
    \/ cret \notin {"idle", "running", "True"}
    \/ iret \notin {"idle", "running", "True"}

\* C15: the exit status is non-zero whenever a step of the capture or of the apply
\* failed (query, download, token, manifest, install, artifact, directory argument)
\* and zero only when the selected mode completed every step.
C15_ExitStatus ==
    mpc = "exited" =>
        /\ FatalStep => exit_status[1] # 0
        /\ exit_status[1] = 0 <=> Completed
        /\ FatalStep <=> ~Completed

\* The process exited with the status of main's return value -1 after Install
\* found an extension entry without artifact.
C15_Witness ==
    /\ mpc = "exited"
    /\ mode = "-i"
    /\ iret = "False"
    /\ OpsExited("installer", 0) # {}
    /\ exit_status = <<255>>

-----------------------------------------------------------------------------
(* Properties of the written manifest *)

\* C16: in a written manifest the keys of installer and of server are exactly the
\* supported platforms, and the keys of every extension entry are exactly the
\* supported platforms and Generic.
C16_KeySets ==
    Written =>
        LET m == manifest_file[1] IN
        /\ DOMAIN m.installer = DOMAIN PLATFORM_IDS.installer_id
        /\ DOMAIN m.server = DOMAIN PLATFORM_IDS.server_id
        /\ \A i \in 1..Len(m.extensions) :
              DOMAIN m.extensions[i].val = DOMAIN PLATFORM_IDS.extension_id \cup {"Generic"}

\* A manifest was written with an entry whose packages were all obtained and an
\* entry that needed the Generic package.
C16_Witness ==
    /\ Written
    /\ \E i, k \in 1..Len(manifest_file[1].extensions) :
          /\ manifest_file[1].extensions[i].val["Generic"] = ""
          /\ manifest_file[1].extensions[k].val["Generic"] # ""

\* C19: Install's extension resolution finds an artifact for every entry of a manifest
\* that Clone wrote, on every supported system.
C19_CaptureResolves ==
    Written =>
        \A sys \in SupportedSystems :
            \A i \in 1..Len(manifest_file[1].extensions) :
                LET entry == manifest_file[1].extensions[i].val IN
                /\ Has(entry, sys) /\ Has(entry, "Generic")
                /\ Compatible(entry[sys], entry["Generic"])
                /\ Select(entry[sys], entry["Generic"]) # ""

\* A manifest was written with an entry that has no Linux package and an entry that
\* has no Windows package.
C19_Witness ==
    /\ Written
    /\ \E i, k \in 1..Len(manifest_file[1].extensions) :
          /\ manifest_file[1].extensions[i].val["Linux"] = ""
          /\ manifest_file[1].extensions[k].val["Windows"] = ""

-----------------------------------------------------------------------------
(* Properties of the pure functions *)

FilenameApplied == fargs.f = "ExtensionFilename" /\ fresult # <<>>

ParseApplied == fargs.f = "ParseExtensionString" /\ fresult # <<>>

\* Number of occurrences of the character c in s.
RECURSIVE Count(_, _)
Count(s, c) ==
    IF Len(s) = 0 THEN 0
    ELSE (IF CharAt(s, 1) = c THEN 1 ELSE 0) + Count(SubSeq(s, 2, Len(s)), c)

\* An extension descriptor of the data model: no "." and no "@" inside the publisher
\* and the package, no "@" inside the version.
Descriptor(x) ==
    /\ Count(x[1], ".") = 0 /\ Count(x[1], "@") = 0
    /\ Count(x[2], ".") = 0 /\ Count(x[2], "@") = 0
    /\ Count(x[3], "@") = 0

\* C17 as stated: identical inputs give identical filenames and any two input tuples
\* that differ give different filenames.
C17_Injective ==
    (FilenameApplied /\ Descriptor(fargs.a[1]) /\ Descriptor(fargs.a[2])) =>
        /\ fargs.a[1] = fargs.a[2] => fresult[1] = fresult[2]
        /\ fargs.a[1] # fargs.a[2] => fresult[1] # fresult[2]

\* A descriptor whose version holds no "-".
Regular(x) == Descriptor(x) /\ Count(x[3], "-") = 0

SamePackage(x, y) == x[1] = y[1] /\ x[2] = y[2] /\ x[3] = y[3]

\* C17 as amended: identical inputs give identical filenames; two tuples of the same
\* publisher, package and version that differ in the platform identifier (present or
\* absent) give different filenames; two different tuples give different filenames
\* when in both the publisher and the package hold no "." or "@" and the version
\* holds no "-" or "@".
C17_InjectiveOnRegular ==
    FilenameApplied =>
        LET x == fargs.a[1]
            y == fargs.a[2]
        IN  /\ x = y => fresult[1] = fresult[2]
            /\ (SamePackage(x, y) /\ x[4] # y[4]) => fresult[1] # fresult[2]
            /\ (Regular(x) /\ Regular(y) /\ x # y) => fresult[1] # fresult[2]

\* ExtensionFilename was applied to the platform-agnostic and to a platform-specific
\* package of one extension.
C17_Witness ==
    /\ FilenameApplied
    /\ Regular(fargs.a[1])
    /\ SamePackage(fargs.a[1], fargs.a[2])
    /\ fargs.a[1][4] = ""
    /\ fargs.a[2][4] # ""

\* C18: a token with one "@" whose prefix holds exactly one "." is split into
\* (publisher, package, version) with publisher.package@version equal to the
\* token; a token without "@", or whose prefix does not hold exactly one ".", fails.
C18_ParseStrict ==
    ParseApplied =>
        LET t == fargs.a[1]
            r == fresult[1]
            ats == Count(t, "@")
            prefix == IF ats = 0 THEN t ELSE SubSeq(t, 1, Find(t, "@", 1) - 1)
            dots == Count(prefix, ".")
        IN  /\ (ats = 1 /\ dots = 1) =>
                  /\ r # ParseError
                  /\ Len(r) = 3
                  /\ r[1] \o "." \o r[2] \o "@" \o r[3] = t
            /\ (ats = 0 \/ dots # 1) => r = ParseError

\* "pub.pkg@1.2.3" was parsed.
C18_Witness ==
    /\ ParseApplied
    /\ fargs.a[1] = "pub.pkg@1.2.3"
    /\ fresult[1] = <<"pub", "pkg", "1.2.3">>

-----------------------------------------------------------------------------
(* Properties of the files of a capture *)

\* The slots of a manifest that record a path.
Recorded(m) ==
    {<<"installer", p>> : p \in {q \in DOMAIN m.installer : m.installer[q] # ""}}
        \cup {<<"server", p>> : p \in {q \in DOMAIN m.server : m.server[q] # ""}}
        \cup UNION {{<<m.extensions[i].key, k>> :
                        k \in {q \in DOMAIN m.extensions[i].val : m.extensions[i].val[q] # ""}} :
                    i \in 1..Len(m.extensions)}

PathOf(m, slot) ==
    IF slot[1] = "installer" THEN m.installer[slot[2]]
    ELSE IF slot[1] = "server" THEN m.server[slot[2]]
    ELSE DictGet(m.extensions, slot[1])[slot[2]]

\* C20: the paths recorded in a written manifest name distinct files: no two slots
\* record the same path, so no download of the capture overwrote a recorded file.
C20_DistinctFiles ==
    Written =>
        \A s1, s2 \in Recorded(manifest_file[1]) :
            s1 # s2 => PathOf(manifest_file[1], s1) # PathOf(manifest_file[1], s2)

====
